---- MODULE Spec2Model ----
(***************************************************************************)
(* Questify question-paper generator: the marks-constrained sampler and    *)
(* the section formatter of app.py, the syllabus segmenter and the         *)
(* generation adapter of llm_utils.py, the batch generation step of        *)
(* app.py and the question store of database.py, as state machines.        *)
(***************************************************************************)
EXTENDS Integers, Sequences, FiniteSets, TLC

VARIABLES
    total_marks,          \* sampler argument: the target total
    allowed_marks,        \* sampler argument: sequence of allowed mark values
    pool,                 \* sampler argument: sequence of question dicts
    marks_to_questions,   \* buckets: mark value -> sequence of questions left
    selected,             \* questions picked so far, in pick order
    current,              \* running total
    order,                \* the shuffled draw order
    idx,                  \* position of the loop in the draw order
    sections,             \* result of format_questions_to_sections
    spc,                  \* position of the paper-assembly request
    raw,                  \* segmenter: the text extracted from the PDF
    text,                 \* segmenter: the normalized text
    units,                \* segmenter: the units, each a title and a content
    gpc,                  \* position of parse_syllabus_units
    unit,                 \* adapter argument: the unit dict
    reply,                \* adapter: what the backend answers to this call
    response,             \* adapter: the items of data.get("questions", [])
    out,                  \* adapter: the cleaned items
    four,                 \* adapter: the items of marks 4
    six,                  \* adapter: the items of marks 6
    balanced,             \* adapter: the list being completed to 4 items
    generated,            \* adapter: the returned list
    upc,                  \* position of generate_questions_for_unit
    unit_no,              \* batch: index in units of the loop's unit
    all_generated,        \* batch: the questions collected so far
    log,                  \* batch: one entry per call of the adapter, in call order
    passed,               \* batch: the argument of the call of insert_questions
    bpc,                  \* position of the batch generation step
    db,                   \* store: the rows of table questions, in rowid order
    last_op,              \* store: the last function of database.py called
    units_available       \* form: the last result of get_all_units

samplerVars == <<total_marks, allowed_marks, pool, marks_to_questions, selected,
                 current, order, idx, sections, spc>>

segmenterVars == <<raw, text, units, gpc>>

adapterVars == <<unit, reply, response, out, four, six, balanced, generated, upc>>

batchVars == <<unit_no, all_generated, log, passed, bpc>>

storeVars == <<db, last_op, units_available>>

vars == <<samplerVars, segmenterVars, adapterVars, batchVars, storeVars>>

----------------------------------------------------------------------------
(* Bounds of the model *)

MaxPool == 3        \* longest pool
MaxAllowed == 2     \* longest allowed_marks sequence
MaxTarget == 7      \* largest target total
MaxPoolFair == 2    \* longest pool of the runs checked for termination
MaxLines == 4       \* most lines of a syllabus text
MaxItems == 5       \* most items of a backend answer
MaxUnits == 3       \* most units of the syllabus of a batch generation
MaxRows == 2        \* most rows of the store
MaxBatch == 2       \* most records of one call of insert_questions

----------------------------------------------------------------------------
(* Sequence helpers *)

Range(s) == {s[i] : i \in 1..Len(s)}

SeqsUpTo(S, n) == UNION {[1..k -> S] : k \in 0..n}

RECURSIVE Count(_, _)
Count(s, v) ==
    IF s = <<>> THEN 0
    ELSE (IF Head(s) = v THEN 1 ELSE 0) + Count(Tail(s), v)

Repeat(v, n) == [i \in 1..n |-> v]

Max(a, b) == IF a >= b THEN a ELSE b

Least(S) == CHOOSE x \in S : \A y \in S : x <= y

\* mutant: pops the head of the list whatever v is
RemoveHead(s, v) == Tail(s)

\* list.remove(v): drops the first element equal to v
RECURSIVE Remove(_, _)
Remove(s, v) ==
    IF s = <<>> THEN <<>>
    ELSE IF Head(s) = v THEN Tail(s)
    ELSE <<Head(s)>> \o Remove(Tail(s), v)

\* every arrangement random.shuffle can leave the list in
Shuffles(s) ==
    {t \in [1..Len(s) -> Range(s)] : \A v \in Range(s) : Count(t, v) = Count(s, v)}

----------------------------------------------------------------------------
(* Question dicts.  The marks entry is an integer, or a value int() rejects  *)
(* (None, "abc"), or is absent from the dict.                                *)

IntMarks(n) == [tag |-> "int", val |-> n]
BadMarks == [tag |-> "bad", val |-> 0]

Question(t, mk) == [question |-> t, marks |-> mk]

\* the mark values offered by the form
MarkOptions == {2, 4}

Questions ==
    {Question("a", IntMarks(2)), Question("b", IntMarks(2)),
     Question("a", IntMarks(4)),
     Question("c", BadMarks), [question |-> "d"]}

\* q.get("marks", 0)
GetMarks(q) == IF "marks" \in DOMAIN q THEN q.marks ELSE IntMarks(0)

\* int(...) raises on a value that is no number
IntRaises(q) == GetMarks(q).tag # "int"

IntOfMarks(q) == GetMarks(q).val

----------------------------------------------------------------------------
(* sample_marks_distribution *)

\* mutant: the membership test of line 75 is dropped
GroupIgnoringAllowed(allowed, p) ==
    [m \in Range(allowed) |-> SelectSeq(p, LAMBDA q : ~IntRaises(q))]

\* lines 69-76: group the pool by marks, keeping only the allowed values
GroupByMarks(allowed, p) ==
    [m \in Range(allowed) |->
        SelectSeq(p, LAMBDA q : ~IntRaises(q) /\ IntOfMarks(q) = m)]

\* lines 81-83: max(1, len(bucket)) slots per entry of allowed_marks
RECURSIVE OrderOf(_, _)
OrderOf(allowed, buckets) ==
    IF allowed = <<>> THEN <<>>
    ELSE Repeat(Head(allowed), Max(1, Len(buckets[Head(allowed)])))
         \o OrderOf(Tail(allowed), buckets)

\* mutant: only the first allowed value's bucket is looked at
AnyLeftFirst ==
    allowed_marks # <<>> /\ marks_to_questions[allowed_marks[1]] # <<>>

\* line 91: any(marks_to_questions[m] for m in allowed_marks)
AnyLeft == \E i \in 1..Len(allowed_marks) : marks_to_questions[allowed_marks[i]] # <<>>

\* line 92: order[idx % len(order)]
Slot == order[(idx % Len(order)) + 1]

\* mutant: a pick that would cross the target is refused
LoopCondNoOvershoot == current + Slot <= total_marks /\ AnyLeft

\* mutant: the comparison with the target is inclusive
LoopCondInclusive == current <= total_marks /\ AnyLeft

\* line 91: the while condition
LoopCond == current < total_marks /\ AnyLeft

\* mutant: every pick counts one
AddOne(cur, m) == cur + 1

\* line 99: current += m
AddMarks(cur, m) == cur + m

\* no syllabus is being parsed
SegmenterIdle ==
    /\ raw = <<>>
    /\ text = <<>>
    /\ units = <<>>
    /\ gpc = "idle"

\* no paper is being assembled
SamplerIdle ==
    /\ total_marks = 0
    /\ allowed_marks = <<>>
    /\ pool = <<>>
    /\ marks_to_questions = <<>>
    /\ selected = <<>>
    /\ current = 0
    /\ order = <<>>
    /\ idx = 0
    /\ sections = <<>>
    /\ spc = "idle"

\* no generation is running
AdapterIdle ==
    /\ unit = <<>>
    /\ reply = [kind |-> "none"]
    /\ response = <<>>
    /\ out = <<>>
    /\ four = <<>>
    /\ six = <<>>
    /\ balanced = <<>>
    /\ generated = <<>>
    /\ upc = "idle"

\* no batch generation is running
BatchIdle ==
    /\ unit_no = 0
    /\ all_generated = <<>>
    /\ log = <<>>
    /\ passed = <<>>
    /\ bpc = "idle"

\* the table as initialize_database creates it, no operation called yet
StoreIdle ==
    /\ db = <<>>
    /\ last_op = "init"
    /\ units_available = <<>>

\* a call with any target, allowed_marks and pool of at most n questions
SamplerCall(n) ==
    /\ total_marks \in -1..MaxTarget
    /\ allowed_marks \in SeqsUpTo(MarkOptions, MaxAllowed)
    /\ pool \in SeqsUpTo(Questions, n)
    /\ marks_to_questions = <<>>
    /\ selected = <<>>
    /\ current = 0
    /\ order = <<>>
    /\ idx = 0
    /\ sections = <<>>
    /\ spc = "start"

\* lines 69-79
Group ==
    /\ spc = "start"
    /\ marks_to_questions' = GroupByMarks(allowed_marks, pool)
    /\ selected' = <<>>
    /\ current' = 0
    /\ spc' = "shuffle"
    /\ UNCHANGED <<total_marks, allowed_marks, pool, order, idx, sections>>
    /\ UNCHANGED <<segmenterVars, adapterVars, batchVars, storeVars>>

\* lines 81-84 and 90, with a non-empty order
Shuffle ==
    /\ spc = "shuffle"
    /\ OrderOf(allowed_marks, marks_to_questions) # <<>>
    /\ order' \in Shuffles(OrderOf(allowed_marks, marks_to_questions))
    /\ idx' = 0
    /\ spc' = "loop"
    /\ UNCHANGED <<total_marks, allowed_marks, pool, marks_to_questions,
                   selected, current, sections>>
    /\ UNCHANGED <<segmenterVars, adapterVars, batchVars, storeVars>>

\* lines 87-88: an empty order returns [], 0
EmptyOrder ==
    /\ spc = "shuffle"
    /\ OrderOf(allowed_marks, marks_to_questions) = <<>>
    /\ selected' = <<>>
    /\ current' = 0
    /\ spc' = "done"
    /\ UNCHANGED <<total_marks, allowed_marks, pool, marks_to_questions,
                   order, idx, sections>>
    /\ UNCHANGED <<segmenterVars, adapterVars, batchVars, storeVars>>

\* mutant: the continue of line 95 is taken before idx is advanced
SkipStuck ==
    /\ spc = "loop"
    /\ LoopCond
    /\ marks_to_questions[Slot] = <<>>
    /\ UNCHANGED vars

\* lines 91-95: the slot's bucket is empty, no pick
Skip ==
    /\ spc = "loop"
    /\ LoopCond
    /\ marks_to_questions[Slot] = <<>>
    /\ idx' = idx + 1
    /\ UNCHANGED <<total_marks, allowed_marks, pool, marks_to_questions,
                   selected, current, order, sections, spc>>
    /\ UNCHANGED <<segmenterVars, adapterVars, batchVars, storeVars>>

\* lines 91-99: pick one question of the slot's bucket
Pick ==
    /\ spc = "loop"
    /\ LoopCond
    /\ marks_to_questions[Slot] # <<>>
    /\ \E q \in Range(marks_to_questions[Slot]) :
         /\ marks_to_questions' =
               [marks_to_questions EXCEPT ![Slot] = Remove(@, q)]
         /\ selected' = Append(selected, q)
    /\ current' = AddMarks(current, Slot)
    /\ idx' = idx + 1
    /\ UNCHANGED <<total_marks, allowed_marks, pool, order, sections, spc>>
    /\ UNCHANGED <<segmenterVars, adapterVars, batchVars, storeVars>>

\* lines 91 and 102: the loop condition fails, return selected, current
Return ==
    /\ spc = "loop"
    /\ ~LoopCond
    /\ spc' = "done"
    /\ UNCHANGED <<total_marks, allowed_marks, pool, marks_to_questions,
                   selected, current, order, idx, sections>>
    /\ UNCHANGED <<segmenterVars, adapterVars, batchVars, storeVars>>

----------------------------------------------------------------------------
(* format_questions_to_sections *)

\* line 109: int(q["marks"]); the dict lookup has no default
KeyOf(q) == q.marks.val

\* mutant: the bucket is overwritten instead of appended to
SetDefaultOverwrite(by_marks, q) ==
    IF KeyOf(q) \in DOMAIN by_marks
    THEN [by_marks EXCEPT ![KeyOf(q)] = <<q>>]
    ELSE by_marks @@ (KeyOf(q) :> <<q>>)

\* line 109: by_marks.setdefault(key, []).append(q)
SetDefaultAppend(by_marks, q) ==
    IF KeyOf(q) \in DOMAIN by_marks
    THEN [by_marks EXCEPT ![KeyOf(q)] = Append(@, q)]
    ELSE by_marks @@ (KeyOf(q) :> <<q>>)

\* lines 107-109
RECURSIVE ByMarks(_, _)
ByMarks(questions, by_marks) ==
    IF questions = <<>> THEN by_marks
    ELSE ByMarks(Tail(questions), SetDefaultAppend(by_marks, Head(questions)))

\* line 111: sorted(by_marks.keys())
RECURSIVE Sorted(_)
Sorted(S) ==
    IF S = {} THEN <<>>
    ELSE <<Least(S)>> \o Sorted(S \ {Least(S)})

\* lines 105-114; a section's title is "Section: {marks} Mark Questions"
FormatQuestionsToSections(questions) ==
    LET by_marks == ByMarks(questions, <<>>)
        keys == Sorted(DOMAIN by_marks)
    IN [i \in 1..Len(keys) |-> [marks |-> keys[i], questions |-> by_marks[keys[i]]]]

\* app.py lines 221-225: a non-empty selection is formatted
Format ==
    /\ spc = "done"
    /\ selected # <<>>
    /\ sections' = FormatQuestionsToSections(selected)
    /\ spc' = "formatted"
    /\ UNCHANGED <<total_marks, allowed_marks, pool, marks_to_questions,
                   selected, current, order, idx>>
    /\ UNCHANGED <<segmenterVars, adapterVars, batchVars, storeVars>>

\* app.py lines 221-222: an empty selection is reported, nothing is formatted
NothingAssembled ==
    /\ spc = "done"
    /\ selected = <<>>
    /\ spc' = "warned"
    /\ UNCHANGED <<total_marks, allowed_marks, pool, marks_to_questions,
                   selected, current, order, idx, sections>>
    /\ UNCHANGED <<segmenterVars, adapterVars, batchVars, storeVars>>

SamplerStep == Group \/ Shuffle \/ EmptyOrder \/ Skip \/ Pick \/ Return

SamplerNext == SamplerStep \/ Format \/ NothingAssembled

SamplerInit ==
    SamplerCall(MaxPool) /\ SegmenterIdle /\ AdapterIdle /\ BatchIdle /\ StoreIdle

Spec == SamplerInit /\ [][SamplerNext]_vars

\* the sampler is a sequential function: its steps are taken until it returns
FairInit ==
    SamplerCall(MaxPoolFair) /\ SegmenterIdle /\ AdapterIdle /\ BatchIdle /\ StoreIdle

FairSpec ==
    /\ FairInit
    /\ [][SamplerNext]_vars
    /\ WF_vars(SamplerStep)

----------------------------------------------------------------------------
(* Text: a string is a sequence of one-character strings *)

UpperCase == <<"A", "B", "C", "D", "E", "F", "G", "H", "I", "J", "K", "L", "M",
               "N", "O", "P", "Q", "R", "S", "T", "U", "V", "W", "X", "Y", "Z">>
LowerCase == <<"a", "b", "c", "d", "e", "f", "g", "h", "i", "j", "k", "l", "m",
               "n", "o", "p", "q", "r", "s", "t", "u", "v", "w", "x", "y", "z">>
Digits == <<"0", "1", "2", "3", "4", "5", "6", "7", "8", "9">>

\* str.lower() and str.upper() on one character
Lower(c) ==
    IF \E i \in 1..Len(UpperCase) : UpperCase[i] = c
    THEN LowerCase[CHOOSE i \in 1..Len(UpperCase) : UpperCase[i] = c]
    ELSE c

Upper(c) ==
    IF \E i \in 1..Len(LowerCase) : LowerCase[i] = c
    THEN UpperCase[CHOOSE i \in 1..Len(LowerCase) : LowerCase[i] = c]
    ELSE c

\* the regex classes \s, \d and \w
IsSpace(c) == c \in {" ", "\t", "\n", "\r", "\f"}
IsDigit(c) == c \in Range(Digits)
WordChars == Range(UpperCase) \cup Range(LowerCase) \cup Range(Digits) \cup {"_"}
IsWordChar(c) == c \in WordChars

\* the first position from i on whose character is not in the class
RECURSIVE SkipSpaces(_, _)
SkipSpaces(t, i) ==
    IF i <= Len(t) /\ IsSpace(t[i]) THEN SkipSpaces(t, i + 1) ELSE i

RECURSIVE SkipDigits(_, _)
SkipDigits(t, i) ==
    IF i <= Len(t) /\ IsDigit(t[i]) THEN SkipDigits(t, i + 1) ELSE i

RECURSIVE SkipNewlines(_, _)
SkipNewlines(t, i) ==
    IF i <= Len(t) /\ t[i] = "\n" THEN SkipNewlines(t, i + 1) ELSE i

RECURSIVE LastNonSpace(_, _)
LastNonSpace(t, i) ==
    IF i >= 1 /\ IsSpace(t[i]) THEN LastNonSpace(t, i - 1) ELSE i

\* str.strip()
Strip(t) == SubSeq(t, SkipSpaces(t, 1), LastNonSpace(t, Len(t)))

\* str.title() of a word of letters
Title(w) == [i \in 1..Len(w) |-> IF i = 1 THEN Upper(w[i]) ELSE Lower(w[i])]

\* str(i) of a number below 100
Str(n) == IF n < 10 THEN <<Digits[n + 1]>> ELSE <<Digits[(n \div 10) + 1], Digits[(n % 10) + 1]>>

\* does w occur in t at position i, ignoring case ((?i))
StartsWith(t, i, w) ==
    /\ i >= 1
    /\ i + Len(w) - 1 <= Len(t)
    /\ \A k \in 1..Len(w) : Lower(t[i + k - 1]) = w[k]

----------------------------------------------------------------------------
(* parse_syllabus_units *)

\* line 90: the shortest content a unit may have
MinContentLen == 20

\* line 61: re.sub(r"\r", "\n", raw)
ReplaceCR(t) == [i \in 1..Len(t) |-> IF t[i] = "\r" THEN "\n" ELSE t[i]]

\* line 62: re.sub(r"\n{2,}", "\n\n", text): of every run of newlines the
\* first two are kept
CollapseNewlines(t) ==
    LET kept == SelectSeq([i \in 1..Len(t) |-> i],
                    LAMBDA i : ~(i > 2 /\ t[i] = "\n" /\ t[i - 1] = "\n" /\ t[i - 2] = "\n"))
    IN [k \in 1..Len(kept) |-> t[kept[k]]]

\* lines 61-62
Normalize(t) == CollapseNewlines(ReplaceCR(t))

\* (unit|module) at position i: the length of the word matched, or 0
HeaderWordLen(t, i) ==
    IF StartsWith(t, i, <<"u", "n", "i", "t">>) THEN 4
    ELSE IF StartsWith(t, i, <<"m", "o", "d", "u", "l", "e">>) THEN 6
    ELSE 0

\* lines 65 and 75: (unit|module)\s*[-:]?\s*(\d+)\b matched at position i.
\* Each quantifier is greedy and none can give a character back to the next
\* element, so the match is the one scan below; fin is the position after it.
MatchHeader(t, i) ==
    LET w == HeaderWordLen(t, i)
        a == SkipSpaces(t, i + w)
        b == IF a <= Len(t) /\ t[a] \in {"-", ":"} THEN a + 1 ELSE a
        c == SkipSpaces(t, b)
        d == SkipDigits(t, c)
    IN [ok |-> w > 0 /\ d > c /\ (d > Len(t) \/ ~IsWordChar(t[d])),
        word |-> SubSeq(t, i, i + w - 1),
        num |-> SubSeq(t, c, d - 1),
        fin |-> d]

\* line 65, (?:^|\n): the position of the header word of a match starting at s,
\* or 0; ^ is the start of the text
HeaderAt(t, s) ==
    IF s = 1 /\ MatchHeader(t, 1).ok THEN 1
    ELSE IF s <= Len(t) /\ t[s] = "\n" /\ MatchHeader(t, s + 1).ok THEN s + 1
    ELSE 0

\* line 65, [\s\S]*?(?=(?:\n(?:unit|module)\s*[-:]?\s*\d+\b)|\Z): the first
\* position from e on where the text ends or a newline and a header follow
LazyEnd(t, e) ==
    LET ends == {k \in e..Len(t) : t[k] = "\n" /\ MatchHeader(t, k + 1).ok}
    IN IF ends = {} THEN Len(t) + 1 ELSE Least(ends)

\* line 67: pattern.finditer(text), the matches from position s on, left to right
RECURSIVE FindIter(_, _)
FindIter(t, s) ==
    LET starts == {k \in s..Len(t) : HeaderAt(t, k) # 0}
    IN IF starts = {} THEN <<>>
       ELSE LET b == Least(starts)
                hd == MatchHeader(t, HeaderAt(t, b))
                e == LazyEnd(t, hd.fin)
            IN <<[block |-> SubSeq(t, b, e - 1), word |-> hd.word, num |-> hd.num]>>
               \o FindIter(t, e)

\* line 75: re.sub(r"(?i)^(unit|module)\s*[-:]?\s*\d+\b\s*", "", block)
RemoveHeading(b) ==
    LET hd == MatchHeader(b, 1)
    IN IF hd.ok THEN SubSeq(b, SkipSpaces(b, hd.fin), Len(b)) ELSE b

\* lines 70-79: the unit of one match
UnitOfMatch(m) ==
    [title |-> Title(m.word) \o <<" ">> \o m.num,
     content |-> Strip(RemoveHeading(Strip(m.block)))]

\* line 82: re.split(r"\n\n+", text)
FirstBlank(t) ==
    LET breaks == {k \in 1..Len(t) - 1 : t[k] = "\n" /\ t[k + 1] = "\n"}
    IN IF breaks = {} THEN 0 ELSE Least(breaks)

RECURSIVE SplitBlank(_)
SplitBlank(t) ==
    LET p == FirstBlank(t)
    IN IF p = 0 THEN <<t>>
       ELSE <<SubSeq(t, 1, p - 1)>> \o SplitBlank(SubSeq(t, SkipNewlines(t, p), Len(t)))

\* mutant: contents of exactly the minimum length are dropped too
LongEnoughStrict(u) == Len(Strip(u.content)) > MinContentLen

\* line 90: len(u.get("content", "").strip()) >= 20
LongEnough(u) == Len(Strip(u.content)) >= MinContentLen

(* The syllabus texts: lines joined by one line-ending convention *)

A(n) == [i \in 1..n |-> "a"]

Bodies ==
    {<<>>,
     A(MinContentLen - 1),
     A(MinContentLen),
     <<"U", "n", "i", "t", " ", "1">>,
     <<"u", "n", "i", "t", "-", "2", " ", "a">>,
     <<"M", "O", "D", "U", "L", "E", " ", "3">>}

LineEndings == {<<"\n">>, <<"\r", "\n">>, <<"\r">>}

RECURSIVE Join(_, _)
Join(lines, eol) ==
    IF lines = <<>> THEN <<>>
    ELSE IF Len(lines) = 1 THEN lines[1]
    ELSE lines[1] \o eol \o Join(Tail(lines), eol)

SegmenterInit ==
    /\ \E lines \in SeqsUpTo(Bodies, MaxLines), eol \in LineEndings :
          raw = Join(lines, eol)
    /\ text = <<>>
    /\ units = <<>>
    /\ gpc = "start"
    /\ SamplerIdle
    /\ AdapterIdle
    /\ BatchIdle
    /\ StoreIdle

\* lines 57-58: nothing but whitespace was extracted
EmptyText ==
    /\ gpc = "start"
    /\ Strip(raw) = <<>>
    /\ units' = <<>>
    /\ gpc' = "done"
    /\ UNCHANGED <<raw, text>>
    /\ UNCHANGED <<samplerVars, adapterVars, batchVars, storeVars>>

\* lines 61-62
NormalizeText ==
    /\ gpc = "start"
    /\ Strip(raw) # <<>>
    /\ text' = Normalize(raw)
    /\ gpc' = "normalized"
    /\ UNCHANGED <<raw, units>>
    /\ UNCHANGED <<samplerVars, adapterVars, batchVars, storeVars>>

\* lines 65-79: the text has headers, one unit per match
SplitOnHeaders ==
    /\ gpc = "normalized"
    /\ FindIter(text, 1) # <<>>
    /\ units' = [k \in 1..Len(FindIter(text, 1)) |-> UnitOfMatch(FindIter(text, 1)[k])]
    /\ gpc' = "split"
    /\ UNCHANGED <<raw, text>>
    /\ UNCHANGED <<samplerVars, adapterVars, batchVars, storeVars>>

\* lines 82-85: no header, several blank-line separated chunks
SplitOnBlankLines ==
    /\ gpc = "normalized"
    /\ FindIter(text, 1) = <<>>
    /\ Len(SplitBlank(text)) > 1
    /\ units' = [k \in 1..Len(SplitBlank(text)) |->
                    [title |-> <<"U", "n", "i", "t", " ">> \o Str(k),
                     content |-> Strip(SplitBlank(text)[k])]]
    /\ gpc' = "split"
    /\ UNCHANGED <<raw, text>>
    /\ UNCHANGED <<samplerVars, adapterVars, batchVars, storeVars>>

\* lines 86-87: no header and no blank line, the whole text is Unit 1
SingleUnit ==
    /\ gpc = "normalized"
    /\ FindIter(text, 1) = <<>>
    /\ Len(SplitBlank(text)) <= 1
    /\ units' = <<[title |-> <<"U", "n", "i", "t", " ", "1">>, content |-> Strip(text)]>>
    /\ gpc' = "split"
    /\ UNCHANGED <<raw, text>>
    /\ UNCHANGED <<samplerVars, adapterVars, batchVars, storeVars>>

\* lines 90-91: short units are dropped, the rest is returned
TrimShort ==
    /\ gpc = "split"
    /\ units' = SelectSeq(units, LongEnough)
    /\ gpc' = "done"
    /\ UNCHANGED <<raw, text>>
    /\ UNCHANGED <<samplerVars, adapterVars, batchVars, storeVars>>

SegmenterNext ==
    EmptyText \/ NormalizeText \/ SplitOnHeaders \/ SplitOnBlankLines
        \/ SingleUnit \/ TrimShort

SegmenterSpec == SegmenterInit /\ [][SegmenterNext]_vars

----------------------------------------------------------------------------
(* generate_questions_for_unit.  The backend's answer is modelled after      *)
(* _extract_json_block and json.loads: the call raised, the text held no     *)
(* braces, the text between the braces was no JSON, or it was a JSON object. *)

\* the items a backend puts in "questions": any key may be absent, the marks
\* may be off the 4|6 schema, the text may be blank
Items ==
    {[question |-> <<"p">>, marks |-> IntMarks(4), difficulty |-> "Easy"],
     [question |-> <<"q">>, marks |-> IntMarks(6), difficulty |-> "Hard"],
     [question |-> <<"r">>, marks |-> IntMarks(3), difficulty |-> "Tricky"],
     [question |-> <<"s">>, marks |-> IntMarks(7)],
     [question |-> <<"t">>, difficulty |-> "Medium"],
     [question |-> <<" ">>, marks |-> IntMarks(4), difficulty |-> "Easy"],
     [question |-> <<"p">>, marks |-> BadMarks, difficulty |-> "Easy"]}

\* line 179: [:4]
SliceLen == 4

\* lines 179, 209, 220: s[:n]
Slice(s, n) == SubSeq(s, 1, IF Len(s) < n THEN Len(s) ELSE n)

\* line 138: unit.get("title", "Unit")
UnitTitle(u) == IF "title" \in DOMAIN u THEN u.title ELSE <<"U", "n", "i", "t">>

\* line 180: str(item.get("question", "")).strip()
ItemText(item) ==
    IF "question" \in DOMAIN item THEN Strip(item.question) ELSE <<>>

\* line 183: item.get("marks", 4)
ItemMarks(item) == IF "marks" \in DOMAIN item THEN item.marks ELSE IntMarks(4)

\* lines 184-186: a value off the schema becomes the nearer of 4 and 6
CoerceMarks(m) == IF m \in {4, 6} THEN m ELSE IF m < 5 THEN 4 ELSE 6

Difficulties == {"Easy", "Medium", "Hard"}

\* lines 187-189
ItemDifficulty(item) ==
    IF "difficulty" \in DOMAIN item /\ item.difficulty \in Difficulties
    THEN item.difficulty ELSE "Medium"

\* lines 181-182: the items of the slice that have a text
Usable(items) == SelectSeq(Slice(items, SliceLen), LAMBDA it : ItemText(it) # <<>>)

\* line 183: int() raises on the marks of an item that has a text
MarksRaise(items) == \E i \in 1..Len(Usable(items)) : ItemMarks(Usable(items)[i]).tag # "int"

\* lines 190-195
Cleaned(title, item) ==
    [unit |-> title,
     question |-> ItemText(item),
     marks |-> IntMarks(CoerceMarks(ItemMarks(item).val)),
     difficulty |-> ItemDifficulty(item)]

\* lines 178-195
BuildOut(title, items) ==
    [i \in 1..Len(Usable(items)) |-> Cleaned(title, Usable(items)[i])]

\* lines 198-199
WithMarks(qs, m) == SelectSeq(qs, LAMBDA q : q.marks.val = m)

\* list.pop(): the list without its last element
Front(s) == SubSeq(s, 1, Len(s) - 1)

Last(s) == s[Len(s)]

Variation == <<" ", "(", "v", "a", "r", "i", "a", "t", "i", "o", "n", ")">>

\* lines 212-216: the list the duplicate is taken from
DupSource ==
    LET src == IF Len(four) < 2 THEN four ELSE six
    IN  IF src = <<>> THEN (IF Len(six) > 0 THEN six ELSE four) ELSE src

\* lines 217-218
Dup(q) == [q EXCEPT !.question = @ \o Variation]

\* a unit as parse_syllabus_units returns it
UnitDict(k) ==
    [title |-> <<"U", "n", "i", "t", " ">> \o Str(k), content |-> A(MinContentLen)]

\* what a backend can answer: items under "questions", an object without
\* that key, a text without braces, a text that is no JSON, or an error
Replies(n) ==
    {[kind |-> "json", data |-> [questions |-> items]] : items \in SeqsUpTo(Items, n)}
        \cup {[kind |-> "json", data |-> [note |-> "none"]],
              [kind |-> "nojson"], [kind |-> "badjson"], [kind |-> "error"]}

AdapterCall(u, r) ==
    /\ unit = u
    /\ reply = r
    /\ response = <<>>
    /\ out = <<>>
    /\ four = <<>>
    /\ six = <<>>
    /\ balanced = <<>>
    /\ generated = <<>>
    /\ upc = "call"

\* lines 168-177: the backend call or json.loads raises
BackendRaises ==
    /\ upc = "call"
    /\ reply.kind \in {"error", "badjson"}
    /\ upc' = "raised"
    /\ UNCHANGED <<unit, reply, response, out, four, six, balanced, generated>>
    /\ UNCHANGED <<samplerVars, segmenterVars, batchVars, storeVars>>

\* lines 176-179 and 223-236: data.get("questions", []); a text without
\* braces stands for an empty list
ReadReply ==
    /\ upc = "call"
    /\ reply.kind \in {"json", "nojson"}
    /\ response' = IF reply.kind = "json" /\ "questions" \in DOMAIN reply.data
                   THEN reply.data.questions ELSE <<>>
    /\ upc' = "parse"
    /\ UNCHANGED <<unit, reply, out, four, six, balanced, generated>>
    /\ UNCHANGED <<samplerVars, segmenterVars, batchVars, storeVars>>

\* line 183: int() rejects the marks of an item
ItemRaises ==
    /\ upc = "parse"
    /\ MarksRaise(response)
    /\ upc' = "raised"
    /\ UNCHANGED <<unit, reply, response, out, four, six, balanced, generated>>
    /\ UNCHANGED <<samplerVars, segmenterVars, batchVars, storeVars>>

\* lines 178-199: clean the items and split them by marks
CleanItems ==
    /\ upc = "parse"
    /\ ~MarksRaise(response)
    /\ out' = BuildOut(UnitTitle(unit), response)
    /\ four' = WithMarks(out', 4)
    /\ six' = WithMarks(out', 6)
    /\ upc' = "to_six"
    /\ UNCHANGED <<unit, reply, response, balanced, generated>>
    /\ UNCHANGED <<samplerVars, segmenterVars, batchVars, storeVars>>

\* lines 201-204: a surplus item of marks 4 becomes one of marks 6
MoveToSix ==
    /\ upc = "to_six"
    /\ Len(four) > 2 /\ Len(six) < 2
    /\ four' = Front(four)
    /\ six' = Append(six, [Last(four) EXCEPT !.marks = IntMarks(6)])
    /\ UNCHANGED <<unit, reply, response, out, balanced, generated, upc>>
    /\ UNCHANGED <<samplerVars, segmenterVars, batchVars, storeVars>>

\* line 201: the first loop ends
EndToSix ==
    /\ upc = "to_six"
    /\ ~(Len(four) > 2 /\ Len(six) < 2)
    /\ upc' = "to_four"
    /\ UNCHANGED <<unit, reply, response, out, four, six, balanced, generated>>
    /\ UNCHANGED <<samplerVars, segmenterVars, batchVars, storeVars>>

\* lines 205-208: a surplus item of marks 6 becomes one of marks 4
MoveToFour ==
    /\ upc = "to_four"
    /\ Len(six) > 2 /\ Len(four) < 2
    /\ six' = Front(six)
    /\ four' = Append(four, [Last(six) EXCEPT !.marks = IntMarks(4)])
    /\ UNCHANGED <<unit, reply, response, out, balanced, generated, upc>>
    /\ UNCHANGED <<samplerVars, segmenterVars, batchVars, storeVars>>

\* lines 205 and 209: the second loop ends, balanced = (four + six)[:4]
Cut ==
    /\ upc = "to_four"
    /\ ~(Len(six) > 2 /\ Len(four) < 2)
    /\ balanced' = Slice(four \o six, 4)
    /\ upc' = "dup"
    /\ UNCHANGED <<unit, reply, response, out, four, six, generated>>
    /\ UNCHANGED <<samplerVars, segmenterVars, batchVars, storeVars>>

\* lines 211-219: a copy of the source's first item, its text marked
Duplicate ==
    /\ upc = "dup"
    /\ Len(balanced) < 4 /\ (four # <<>> \/ six # <<>>)
    /\ balanced' = Append(balanced, Dup(DupSource[1]))
    /\ UNCHANGED <<unit, reply, response, out, four, six, generated, upc>>
    /\ UNCHANGED <<samplerVars, segmenterVars, batchVars, storeVars>>

\* lines 211 and 220: the loop ends, return balanced[:4]
ReturnBalanced ==
    /\ upc = "dup"
    /\ ~(Len(balanced) < 4 /\ (four # <<>> \/ six # <<>>))
    /\ generated' = Slice(balanced, 4)
    /\ upc' = "returned"
    /\ UNCHANGED <<unit, reply, response, out, four, six, balanced>>
    /\ UNCHANGED <<samplerVars, segmenterVars, batchVars, storeVars>>

AdapterInit ==
    /\ \E r \in Replies(MaxItems) : AdapterCall(UnitDict(1), r)
    /\ SamplerIdle
    /\ SegmenterIdle
    /\ BatchIdle
    /\ StoreIdle

AdapterNext ==
    BackendRaises \/ ReadReply \/ ItemRaises \/ CleanItems \/ MoveToSix
        \/ EndToSix \/ MoveToFour \/ Cut \/ Duplicate \/ ReturnBalanced

AdapterSpec == AdapterInit /\ [][AdapterNext]_vars

----------------------------------------------------------------------------
(* The question store of database.py.  A row is a dict of id, unit,          *)
(* question, marks and difficulty; str() of a text is that text.             *)

Unknown == <<"U", "n", "k", "n", "o", "w", "n">>

\* line 83: if r.get("question")
HasQuestion(r) == "question" \in DOMAIN r /\ r.question # <<>>

\* lines 82-83: the records a row is built from
Kept(records) == SelectSeq(records, HasQuestion)

\* line 79: int(r.get("marks", 0)) raises
RowRaises(records) == \E i \in 1..Len(Kept(records)) : IntRaises(Kept(records)[i])

\* lines 76-81
RowOf(r) ==
    [unit |-> IF "unit" \in DOMAIN r THEN r.unit ELSE Unknown,
     question |-> r.question,
     marks |-> IntMarks(IntOfMarks(r)),
     difficulty |-> IF "difficulty" \in DOMAIN r THEN r.difficulty ELSE "Medium"]

\* lines 75-84
Rows(records) == [i \in 1..Len(Kept(records)) |-> RowOf(Kept(records)[i])]

\* line 51: CHECK (difficulty IN ('Easy','Medium','Hard')) rejects a row
CheckFails(rows) == \E i \in 1..Len(rows) : rows[i].difficulty \notin Difficulties

\* lines 79 and 89: the call raises, and nothing is committed
InsertFails(records) == RowRaises(records) \/ CheckFails(Rows(records))

\* mutant: the new rows take the place of the table's rows
StoreInsertReplacing(d, records) ==
    IF InsertFails(records) THEN d
    ELSE [i \in 1..Len(Rows(records)) |->
            [id |-> i,
             unit |-> Rows(records)[i].unit,
             question |-> Rows(records)[i].question,
             marks |-> Rows(records)[i].marks,
             difficulty |-> Rows(records)[i].difficulty]]

\* lines 47 and 89-93: the rows are appended under the next ids
StoreInsert(d, records) ==
    IF InsertFails(records) THEN d
    ELSE d \o [i \in 1..Len(Rows(records)) |->
                 [id |-> Len(d) + i,
                  unit |-> Rows(records)[i].unit,
                  question |-> Rows(records)[i].question,
                  marks |-> Rows(records)[i].marks,
                  difficulty |-> Rows(records)[i].difficulty]]

----------------------------------------------------------------------------
(* The batch generation step of app.py, lines 178-191 *)

\* a syllabus of n headed units, each long enough to be kept
Syllabus(n) ==
    Join([k \in 1..(2 * n) |->
            IF k % 2 = 1 THEN <<"U", "n", "i", "t", " ">> \o Str((k + 1) \div 2)
            ELSE A(MinContentLen)], <<"\n">>)

\* llm_utils.py lines 65-91: the units of a text that has headers
HeadedUnits(t) ==
    SelectSeq([k \in 1..Len(FindIter(Normalize(t), 1)) |->
                  UnitOfMatch(FindIter(Normalize(t), 1)[k])], LongEnough)

\* the answers the backend gives during a batch
BatchReplies ==
    LET item(q, m) == [question |-> q, marks |-> IntMarks(m), difficulty |-> "Easy"]
    IN  {[kind |-> "error"],
         [kind |-> "nojson"],
         [kind |-> "json", data |-> [questions |-> Repeat(item(<<"p">>, 4), 4)]],
         [kind |-> "json", data |-> [questions |-> Repeat(item(<<"q">>, 6), 3)]],
         [kind |-> "json",
          data |-> [questions |-> <<[question |-> <<"p">>, marks |-> BadMarks]>>]]}

\* lines 163-181: the syllabus is parsed, the button is pressed
BatchInit ==
    /\ \E n \in 1..MaxUnits :
          /\ raw = Syllabus(n)
          /\ text = Normalize(raw)
          /\ units = HeadedUnits(raw)
    /\ gpc = "done"
    /\ unit_no = 1
    /\ all_generated = <<>>
    /\ log = <<>>
    /\ passed = <<>>
    /\ bpc = "loop"
    /\ SamplerIdle
    /\ AdapterIdle
    /\ StoreIdle

\* lines 182-185: generate_questions_for_unit(unit) is called
CallAdapter ==
    /\ bpc = "loop"
    /\ unit_no <= Len(units)
    /\ unit' = units[unit_no]
    /\ reply' \in BatchReplies
    /\ response' = <<>>
    /\ out' = <<>>
    /\ four' = <<>>
    /\ six' = <<>>
    /\ balanced' = <<>>
    /\ generated' = <<>>
    /\ upc' = "call"
    /\ bpc' = "generating"
    /\ UNCHANGED <<unit_no, all_generated, log, passed>>
    /\ UNCHANGED <<samplerVars, segmenterVars, storeVars>>

\* lines 185-186: all_generated.extend(generated)
CollectGenerated ==
    /\ bpc = "generating"
    /\ upc = "returned"
    /\ all_generated' = all_generated \o generated
    /\ log' = Append(log, [unit |-> unit, ok |-> TRUE, questions |-> generated])
    /\ unit_no' = unit_no + 1
    /\ bpc' = "loop"
    /\ UNCHANGED passed
    /\ UNCHANGED <<samplerVars, segmenterVars, adapterVars, storeVars>>

\* mutant: a failure ends the loop
GenerationFailedAborts ==
    /\ bpc = "generating"
    /\ upc = "raised"
    /\ log' = Append(log, [unit |-> unit, ok |-> FALSE, questions |-> <<>>])
    /\ unit_no' = Len(units) + 1
    /\ bpc' = "loop"
    /\ UNCHANGED <<all_generated, passed>>
    /\ UNCHANGED <<samplerVars, segmenterVars, adapterVars, storeVars>>

\* lines 187-188: the error is reported, the loop goes on
GenerationFailed ==
    /\ bpc = "generating"
    /\ upc = "raised"
    /\ log' = Append(log, [unit |-> unit, ok |-> FALSE, questions |-> <<>>])
    /\ unit_no' = unit_no + 1
    /\ bpc' = "loop"
    /\ UNCHANGED <<all_generated, passed>>
    /\ UNCHANGED <<samplerVars, segmenterVars, adapterVars, storeVars>>

\* lines 189-191: insert_questions(all_generated)
InsertGenerated ==
    /\ bpc = "loop"
    /\ unit_no > Len(units)
    /\ all_generated # <<>>
    /\ passed' = all_generated
    /\ db' = StoreInsert(db, all_generated)
    /\ last_op' = "insert"
    /\ bpc' = "done"
    /\ UNCHANGED <<unit_no, all_generated, log, units_available>>
    /\ UNCHANGED <<samplerVars, segmenterVars, adapterVars>>

\* line 189: nothing was generated, insert_questions is not called
NothingGenerated ==
    /\ bpc = "loop"
    /\ unit_no > Len(units)
    /\ all_generated = <<>>
    /\ bpc' = "done"
    /\ UNCHANGED <<unit_no, all_generated, log, passed>>
    /\ UNCHANGED <<samplerVars, segmenterVars, adapterVars, storeVars>>

BatchNext ==
    CallAdapter \/ BackendRaises \/ ReadReply \/ ItemRaises \/ CleanItems
        \/ MoveToSix \/ EndToSix \/ MoveToFour \/ Cut \/ Duplicate
        \/ ReturnBalanced \/ CollectGenerated \/ GenerationFailed
        \/ InsertGenerated \/ NothingGenerated

BatchSpec == BatchInit /\ [][BatchNext]_vars

----------------------------------------------------------------------------
(* The store operations and the paper-assembly request, app.py lines 124-125, *)
(* 149-155 and 200-225                                                       *)

\* the characters of unit names, in the order of their codes
Ascii == <<" ">> \o Digits \o UpperCase \o LowerCase

CharCode(c) == CHOOSE i \in 1..Len(Ascii) : Ascii[i] = c

\* SQLite's BINARY collation: a sorts before b
TextLess(a, b) ==
    \E k \in 1..(Len(a) + 1) :
        /\ k <= Len(b)
        /\ \A j \in 1..(k - 1) : a[j] = b[j]
        /\ (k > Len(a) \/ CharCode(a[k]) < CharCode(b[k]))

\* database.py line 123: ORDER BY unit ASC, marks ASC
RowLeq(r1, r2) ==
    \/ TextLess(r1.unit, r2.unit)
    \/ r1.unit = r2.unit /\ r1.marks.val <= r2.marks.val

\* database.py lines 108-121: an empty or absent filter selects everything
Matches(row, us, ds, ms) ==
    /\ us = {} \/ row.unit \in us
    /\ ds = {} \/ row.difficulty \in ds
    /\ ms = {} \/ row.marks.val \in ms

\* database.py lines 99-131: the matching rows in any order the ORDER BY allows
QueryQuestions(d, us, ds, ms) ==
    LET rows == SelectSeq(d, LAMBDA row : Matches(row, us, ds, ms))
    IN  {p \in Shuffles(rows) :
            \A i \in 1..Len(p) : \A j \in i..Len(p) : RowLeq(p[i], p[j])}

\* the texts of S in ascending order
RECURSIVE SortedTexts(_)
SortedTexts(S) ==
    IF S = {} THEN <<>>
    ELSE LET least == CHOOSE x \in S : \A y \in S : x = y \/ TextLess(x, y)
         IN  <<least>> \o SortedTexts(S \ {least})

\* database.py lines 134-141: SELECT DISTINCT unit ... ORDER BY unit ASC
AllUnits(d) == SortedTexts({d[i].unit : i \in 1..Len(d)})

\* the records insert_questions is called with
StoreRecords ==
    {[unit |-> UnitDict(1).title, question |-> <<"a">>, marks |-> IntMarks(2),
      difficulty |-> "Easy"],
     [unit |-> UnitDict(2).title, question |-> <<"b">>, marks |-> IntMarks(4),
      difficulty |-> "Hard"],
     [question |-> <<"c">>],
     [unit |-> UnitDict(1).title, question |-> <<>>, marks |-> IntMarks(2),
      difficulty |-> "Easy"],
     [unit |-> UnitDict(1).title, question |-> <<"d">>, marks |-> BadMarks,
      difficulty |-> "Easy"],
     [unit |-> UnitDict(1).title, question |-> <<"e">>, marks |-> IntMarks(4),
      difficulty |-> "Tricky"]}

\* app.py line 149: the least total the form accepts
MinTotal == 10

\* app.py line 150: a multiselect gives each option at most once
FormAllowed ==
    {a \in SeqsUpTo(MarkOptions, MaxAllowed) :
        \A i \in 1..Len(a) : \A j \in 1..Len(a) : a[i] = a[j] => i = j}

\* app.py line 218: allowed_marks if allowed_marks else [2, 4, 6]
AllowedOrDefault(a) == IF a # <<>> THEN a ELSE <<2, 4, 6>>

\* app.py line 206: None if difficulty == "All" else [difficulty]
DifficultyFilter(dif) == IF dif = "All" THEN {} ELSE {dif}

StoreInit ==
    /\ StoreIdle
    /\ SamplerIdle
    /\ SegmenterIdle
    /\ AdapterIdle
    /\ BatchIdle

\* database.py lines 70-96
InsertQuestions ==
    /\ spc = "idle"
    /\ \E records \in SeqsUpTo(StoreRecords, MaxBatch) :
          /\ Len(db) + Len(Kept(records)) <= MaxRows
          /\ db' = StoreInsert(db, records)
    /\ last_op' = "insert"
    /\ UNCHANGED units_available
    /\ UNCHANGED <<samplerVars, segmenterVars, adapterVars, batchVars>>

\* database.py lines 60-67, app.py lines 124-125
ResetDatabase ==
    /\ spc = "idle"
    /\ db' = <<>>
    /\ last_op' = "reset"
    /\ UNCHANGED units_available
    /\ UNCHANGED <<samplerVars, segmenterVars, adapterVars, batchVars>>

\* database.py lines 134-141, app.py line 154
GetAllUnits ==
    /\ spc = "idle"
    /\ units_available' = AllUnits(db)
    /\ last_op' = "units"
    /\ UNCHANGED db
    /\ UNCHANGED <<samplerVars, segmenterVars, adapterVars, batchVars>>

\* app.py lines 200-220: the query gives a pool, the sampler is called
GeneratePaper ==
    /\ spc = "idle"
    /\ \E a \in FormAllowed, dif \in {"All"} \cup Difficulties,
          us \in SUBSET Range(units_available) :
          /\ pool' \in QueryQuestions(db, us, DifficultyFilter(dif), Range(a))
          /\ allowed_marks' = AllowedOrDefault(a)
    /\ pool' # <<>>
    /\ total_marks' = MinTotal
    /\ marks_to_questions' = <<>>
    /\ selected' = <<>>
    /\ current' = 0
    /\ order' = <<>>
    /\ idx' = 0
    /\ sections' = <<>>
    /\ spc' = "start"
    /\ last_op' = "query"
    /\ UNCHANGED <<db, units_available>>
    /\ UNCHANGED <<segmenterVars, adapterVars, batchVars>>

\* app.py lines 200-214: the query gives nothing, a warning is shown
NoQuestions ==
    /\ spc = "idle"
    /\ \E a \in FormAllowed, dif \in {"All"} \cup Difficulties,
          us \in SUBSET Range(units_available) :
          QueryQuestions(db, us, DifficultyFilter(dif), Range(a)) = {<<>>}
    /\ pool' = <<>>
    /\ spc' = "warned"
    /\ last_op' = "query"
    /\ UNCHANGED <<total_marks, allowed_marks, marks_to_questions, selected,
                   current, order, idx, sections>>
    /\ UNCHANGED <<db, units_available>>
    /\ UNCHANGED <<segmenterVars, adapterVars, batchVars>>

\* the script run ends, its locals are gone
EndRequest ==
    /\ spc \in {"formatted", "warned"}
    /\ total_marks' = 0
    /\ allowed_marks' = <<>>
    /\ pool' = <<>>
    /\ marks_to_questions' = <<>>
    /\ selected' = <<>>
    /\ current' = 0
    /\ order' = <<>>
    /\ idx' = 0
    /\ sections' = <<>>
    /\ spc' = "idle"
    /\ UNCHANGED <<segmenterVars, adapterVars, batchVars, storeVars>>

\* the operations are taken one at a time, a paper request counting as one;
\* line 218 never hands the sampler an empty allowed_marks
StoreNext ==
    InsertQuestions \/ ResetDatabase \/ GetAllUnits \/ GeneratePaper
        \/ NoQuestions \/ Group \/ Shuffle \/ Skip \/ Pick \/ Return
        \/ Format \/ NothingAssembled \/ EndRequest

StoreSpec == StoreInit /\ [][StoreNext]_vars

----------------------------------------------------------------------------
(* Properties of the sampler and the formatter *)

Returned == spc \in {"done", "formatted", "warned"}

\* the marks of a pool question are an integer of allowed_marks
IsAllowed(q) ==
    /\ "marks" \in DOMAIN q
    /\ q.marks.tag = "int"
    /\ q.marks.val \in Range(allowed_marks)

AllowedPool == SelectSeq(pool, IsAllowed)

RECURSIVE SumMarks(_)
SumMarks(s) == IF s = <<>> THEN 0 ELSE Head(s).marks.val + SumMarks(Tail(s))

\* C1: no pool question is selected more often than the pool holds it, and
\* every selected question has an integer marks value that is in allowed_marks.
C1_NoRepeatAllowedOnly ==
    \A q \in Range(selected) :
        /\ Count(selected, q) <= Count(pool, q)
        /\ IsAllowed(q)

\* a pool holding a question twice and a question that is not allowed, both
\* copies of the first selected
C1_Witness ==
    /\ spc = "done"
    /\ \E q \in Range(pool) : Count(pool, q) = 2 /\ Count(selected, q) = 2
    /\ \E q \in Range(pool) : ~IsAllowed(q)

\* C2: a returned total below the target means every allowed pool question
\* was selected and every bucket is empty.
C2_UndershootOnlyOnExhaustion ==
    (Returned /\ current < total_marks) =>
        /\ \A q \in Range(AllowedPool) : Count(selected, q) = Count(pool, q)
        /\ \A m \in DOMAIN marks_to_questions : marks_to_questions[m] = <<>>

C2_Witness ==
    /\ spc = "done"
    /\ current < total_marks
    /\ Len(selected) >= 2

\* C3: the total before the last pick was below the target, and a target of
\* zero or less selects nothing.
C3_OvershootBoundedByOnePick ==
    /\ selected # <<>> => current - selected[Len(selected)].marks.val < total_marks
    /\ total_marks <= 0 => selected = <<>>

C3_Witness ==
    /\ spc = "done"
    /\ Len(selected) >= 2
    /\ current > total_marks

\* C4: the sampler returns from every input.
C4_Terminates == <>Returned

\* a return after picks and after slots of an empty bucket were skipped
C4_Witness ==
    /\ spc = "done"
    /\ selected # <<>>
    /\ idx > Len(selected)
    /\ \E m \in Range(allowed_marks) : GroupByMarks(allowed_marks, pool)[m] = <<>>

\* C5: with no allowed value, no pool or no allowed pool question the result
\* is ([], 0).
C5_EmptyResult ==
    (Returned /\ (allowed_marks = <<>> \/ pool = <<>> \/ AllowedPool = <<>>)) =>
        (selected = <<>> /\ current = 0)

C5_Witness ==
    /\ spc = "done"
    /\ allowed_marks # <<>>
    /\ pool # <<>>
    /\ AllowedPool = <<>>
    /\ total_marks > 0

\* C6 as stated: an unreachable target gives an empty selection.
C6_UnreachableGivesEmpty ==
    (Returned /\ SumMarks(AllowedPool) < total_marks) =>
        (selected = <<>> /\ current = 0)

\* C6 amended: an unreachable target gives every allowed pool question, with
\* their sum as the total; the selection is empty only if none is allowed.
C6_UnreachableGivesAll ==
    (Returned /\ SumMarks(AllowedPool) < total_marks) =>
        /\ \A q \in Range(pool) \cup Range(selected) :
               Count(selected, q) = Count(AllowedPool, q)
        /\ current = SumMarks(AllowedPool)
        /\ (selected = <<>> <=> AllowedPool = <<>>)

C6_Witness ==
    /\ spc = "done"
    /\ SumMarks(AllowedPool) < total_marks
    /\ Len(selected) >= 2
    /\ Len(pool) > Len(selected)

\* C7: the running total is the sum of the marks of the selected questions.
C7_TotalIsSumOfSelected ==
    /\ \A q \in Range(selected) : ~IntRaises(q) /\ "marks" \in DOMAIN q
    /\ current = SumMarks(selected)

C7_Witness ==
    /\ spc = "loop"
    /\ Len(selected) >= 2
    /\ \E i, j \in 1..Len(selected) : selected[i].marks.val # selected[j].marks.val

SectionMarks == {sections[i].marks : i \in 1..Len(sections)}

RECURSIVE Flatten(_)
Flatten(secs) ==
    IF secs = <<>> THEN <<>> ELSE Head(secs).questions \o Flatten(Tail(secs))

\* C8: one section per marks value of the selection, in strictly ascending
\* order, each holding the selected questions of that value in selection
\* order; the sections together hold every selected question exactly once.
C8_SectionsPartitionSelection ==
    spc = "formatted" =>
        /\ SectionMarks = {q.marks.val : q \in Range(selected)}
        /\ \A i \in 1..Len(sections) - 1 : sections[i].marks < sections[i + 1].marks
        /\ \A i \in 1..Len(sections) :
               sections[i].questions =
                   SelectSeq(selected, LAMBDA q : q.marks.val = sections[i].marks)
        /\ Len(Flatten(sections)) = Len(selected)
        /\ \A q \in Range(selected) : Count(Flatten(sections), q) = Count(selected, q)

\* two sections, one holding two questions picked around a larger one
C8_Witness ==
    /\ spc = "formatted"
    /\ Len(sections) = 2
    /\ Len(selected) = 3
    /\ selected[2].marks.val > selected[3].marks.val
    /\ selected[1] # selected[3]

----------------------------------------------------------------------------
(* Properties of the segmenter *)

UnitWord == <<"U", "n", "i", "t">>

\* the positions of raw where a heading marker starts a line
HeadingStarts(t) ==
    {i \in 1..Len(t) : (i = 1 \/ t[i - 1] \in {"\n", "\r"}) /\ MatchHeader(t, i).ok}

\* the k-th heading of t, with the text from the end of its marker up to the
\* next heading as its content
HeadingUnit(t, k) ==
    LET hs == Sorted(HeadingStarts(t))
        next == IF k < Len(hs) THEN hs[k + 1] ELSE Len(t) + 1
        hd == MatchHeader(t, hs[k])
    IN [title |-> Title(hd.word) \o <<" ">> \o hd.num,
        content |-> Strip(Normalize(SubSeq(t, hd.fin, next - 1)))]

HeadingUnits(t) == [k \in 1..Cardinality(HeadingStarts(t)) |-> HeadingUnit(t, k)]

\* every heading of t is a "Unit k" heading that has its line to itself
OnlyUnitHeadings(t) ==
    \A i \in HeadingStarts(t) :
        /\ Title(MatchHeader(t, i).word) = UnitWord
        /\ MatchHeader(t, i).fin > Len(t) \/ t[MatchHeader(t, i).fin] \in {"\n", "\r"}

Lines(t) ==
    LET kept == SelectSeq([i \in 1..Len(t) |-> i],
                    LAMBDA i : ~(t[i] = "\r" /\ i < Len(t) /\ t[i + 1] = "\n"))
    IN [k \in 1..Len(kept) |-> IF t[kept[k]] = "\r" THEN "\n" ELSE t[kept[k]]]

NoBlankLine(t) == \A i \in 1..Len(Lines(t)) - 1 : ~(Lines(t)[i] = "\n" /\ Lines(t)[i + 1] = "\n")

\* C10: a text without heading and without blank line gives one unit titled
\* "Unit 1" holding the trimmed text if that has MinContentLen characters or
\* more, and no unit otherwise.
C10_SingleUnitFallback ==
    (gpc = "done" /\ HeadingStarts(raw) = {} /\ NoBlankLine(raw)) =>
        IF Len(Strip(raw)) >= MinContentLen
        THEN /\ Len(units) = 1
             /\ units[1].title = UnitWord \o <<" ", "1">>
             /\ Lines(units[1].content) = Strip(Lines(raw))
        ELSE units = <<>>

----------------------------------------------------------------------------
(* Properties of the generation adapter *)

Generated == upc = "returned"

\* the backend's answer has an item whose question text is not blank
HasText(r) ==
    /\ r.kind = "json"
    /\ "questions" \in DOMAIN r.data
    /\ \E i \in 1..Len(r.data.questions) : ItemText(r.data.questions[i]) # <<>>

\* C11: when generate_questions_for_unit returns from an answer that has an
\* item with a non-empty question text, the result has exactly 4 questions,
\* two of marks 4 and two of marks 6, each tagged with the unit's title and
\* a difficulty among Easy, Medium, Hard.
C11_TwoFoursTwoSixes ==
    (Generated /\ HasText(reply)) =>
        /\ Len(generated) = 4
        /\ Len(WithMarks(generated, 4)) = 2
        /\ Len(WithMarks(generated, 6)) = 2
        /\ \A i \in 1..Len(generated) :
              /\ generated[i].unit = UnitTitle(unit)
              /\ generated[i].difficulty \in Difficulties

----------------------------------------------------------------------------
(* Properties of the batch generation step *)

BatchDone == bpc = "done"

\* the questions returned by the calls that succeeded, in call order
RECURSIVE Succeeded(_)
Succeeded(l) ==
    IF l = <<>> THEN <<>>
    ELSE (IF Head(l).ok THEN Head(l).questions ELSE <<>>) \o Succeeded(Tail(l))

\* C12: a failure of the adapter for one unit never aborts the batch: the
\* adapter is called once for every unit, in unit order, and the questions of
\* the units whose generation succeeded are what insert_questions is given,
\* in unit order, whichever other units failed.
C12_FailureDoesNotAbort ==
    BatchDone =>
        /\ Len(log) = Len(units)
        /\ \A k \in 1..Len(units) : log[k].unit = units[k]
        /\ passed = Succeeded(log)

\* a unit fails between two units that succeed, and both are inserted
C12_Witness ==
    /\ BatchDone
    /\ Len(log) = 3
    /\ log[1].ok /\ log[1].questions # <<>>
    /\ ~log[2].ok
    /\ log[3].ok /\ log[3].questions # <<>>
    /\ last_op = "insert"
    /\ Len(db) = Len(log[1].questions) + Len(log[3].questions)

----------------------------------------------------------------------------
(* Properties of the store *)

\* a row of the table is gone or changed after the step
SomeRowLost == \E i \in 1..Len(db) : i > Len(db') \/ db'[i] # db[i]

\* the step is one of a query, of get_all_units, of the sampler or of the
\* formatter
ReadingStep == last_op' \in {"query", "units"} \/ <<spc, idx>>' # <<spc, idx>>

\* C13: a question once inserted stays in the store, its unit, text, marks
\* and difficulty unchanged, until the next reset_database; only
\* reset_database removes questions, and it removes all of them; a query,
\* get_all_units, sampling and formatting never change the store.
C13_StoreKeepsQuestions ==
    [][/\ SomeRowLost => (last_op' = "reset" /\ db' = <<>>)
       /\ ReadingStep => db' = db]_vars

\* questions of two units were stored and listed, then reset_database
\* emptied the store
C13_Witness ==
    /\ last_op = "reset"
    /\ db = <<>>
    /\ Len(units_available) >= 2

====
